---- MODULE Spec2Model ----
(***************************************************************************)
(* Terminal.js: the append-only text Buffer, the Screen tilemap and the    *)
(* View that binds them (style-inclusive variant, module Terminal).        *)
(***************************************************************************)
EXTENDS Integers, Sequences, FiniteSets, TLC

(* ------------------------------ bounds --------------------------------- *)
\* Initial length of Buffer.buffer / styles / colors (1024 * 1024 in the
\* source), scaled down so that several doublings happen.
BufferLength0 == 1
\* Initial length of Buffer.starts (32 in the source), scaled down.
StartsLength0 == 1
\* Largest write index explored.
MaxI == 3
\* Largest row count explored.
MaxH == 3
\* Largest column cap given to the Buffer constructor.
MaxColumns == 3
\* Largest write index of the runs that render a whole text.
MaxText == 4
\* Selections the selection buffer holds (512 in the program).
MaxSelections == 2

(* --------------------------- program constants ------------------------- *)
NewLine == 10
Normal == 0
Bold == 1
Italic == 2
BoldItalic == 3
DefaultColor == 65535
KeyColor == 2016
GlyphCount == 256
AtlasWidth == 2048
FontSize == 10
DefaultSw == 1024

(* ------------------------------ inputs --------------------------------- *)
\* Code points handed to writeCharCode: a letter, the newline code, and a
\* code point above 255 whose low byte is the newline code.
Codes == {65, NewLine, 266}
\* Strings handed to writeString, as sequences of char codes.
Strings == {<< >>, <<65>>, <<65, 65>>, <<NewLine>>, <<65, NewLine, 65>>, <<266>>}
Colors == {DefaultColor, KeyColor}
\* Inputs of the runs in which the color and style change.
PenCodes == {65}
PenStrings == {<<65, NewLine, 65>>}
Styles == {Normal, Italic}
\* Inputs of the runs with a View.
ViewCodes == {65}
ViewStrings == {<<65, NewLine, 65>>}
\* Canvas sizes in pixels, <<width, height>>, and the measured glyph width.
CanvasSizes == {<<18, 36>>}
MeasuredWidths == {6}
\* Inputs of the runs that drive a Screen directly: canvases of 2x1 and 1x2
\* cells, cursor targets inside, on and beyond the grid edge and below zero,
\* source rectangles inside and outside the buffer content.
\* Inputs of the runs that scroll a View: canvases of 1x1 and 2x2 cells and
\* wheel deltas <<dx, dy>> of one step, of the accelerated step and of both
\* signs.
ScrollCanvasSizes == {<<6, 12>>, <<12, 24>>}
ScrollDeltas == {<<0, 1>>, <<1, 0>>, <<-10, -100>>, <<10, 100>>}
ScrollStrings == {<<65, 65, NewLine>>}
\* Inputs of the runs that render a whole text on a canvas of 4x4 cells: the
\* text "AB\nCD" in one piece and in its parts.
TextCanvasSizes == {<<24, 48>>}
ABCD == <<65, 66, NewLine, 67, 68>>
TextStrings == {ABCD, <<65, 66>>, <<NewLine>>, <<67, 68>>}
\* Inputs of the runs that write every glyph: the measured glyph widths (the
\* canvas is one tile wide and high), every style and every code point.
GlyphWidths == {6, 8, 12}
AllStyles == {Normal, Bold, Italic, BoldItalic}
AllCodes == 0..(GlyphCount - 1)
\* Inputs of the runs that write in every color: <<r, g, b>> with one channel
\* running over 0..255 and the two others at 0, white, and one mixed color.
ColorInputs ==
  {<<v, 0, 0>> : v \in 0..255} \cup {<<0, v, 0>> : v \in 0..255}
    \cup {<<0, 0, v>> : v \in 0..255} \cup {<<255, 255, 255>>, <<255, 100, 0>>}
ColorCodes == {65}
\* Inputs of the runs that render rows of different letters on a canvas of
\* 2x3 cells.
WindowCanvasSizes == {<<12, 36>>}
WindowStrings == {<<65, NewLine>>, <<66>>, <<67, NewLine, 68>>}
WindowDeltas == {<<0, 1>>, <<1, -1>>}
\* Inputs of the runs that select cells: <<x, y, length>>.
Selections == {<<0, 0, 1>>, <<1, 0, 1>>}
SelectCodes == {65}
SelectCanvasSizes == {<<12, 12>>}
\* Inputs of the runs in which both render loops tick fairly.
LiveCanvasSizes == {<<12, 36>>}
LiveStrings == {<<65, NewLine>>, <<66>>}
LiveDeltas == {<<0, 1>>, <<1, -1>>}
ResizeCanvasSizes == {<<12, 36>>, <<6, 24>>}
ScreenCanvasSizes == {<<12, 12>>, <<6, 24>>}
MoveTargets == {<<0, 0>>, <<1, 0>>, <<0, 1>>, <<2, 1>>, <<-1, 5>>, <<5, -1>>}
ScreenCodes == {65}
ScreenStrings == {<<65, NewLine, 65>>}
ScreenBufferStrings == {<<65, NewLine, 65>>}
SourceRects == {<<0, 0, DefaultSw, DefaultSw>>, <<0, 2, DefaultSw, DefaultSw>>,
                <<0, 7, 1, 1>>, <<7, 0, 1, 1>>}

VARIABLES b, g, fresh, freshPen, screen, view, mutated, ticked, scrolled, last

vars == <<b, g, fresh, freshPen, screen, view, mutated, ticked, scrolled, last>>

(* ------------------------------ helpers -------------------------------- *)
Max(m, n) == IF m >= n THEN m ELSE n
Min(m, n) == IF m <= n THEN m ELSE n

\* new Uint8Array(n) / Uint16Array(n) / Uint32Array(n): n zeroes, index 0..n-1
TypedArray(n) == [p \in 0..(n - 1) |-> 0]
Length(a) == Cardinality(DOMAIN a)
\* var t = new T(a.length * 2); t.set(a, 0)
DoubledNoCopy(a) == TypedArray(Length(a) * 2)
Doubled(a) == [p \in 0..(Length(a) * 2 - 1) |-> IF p \in DOMAIN a THEN a[p] ELSE 0]

(* ------------------------------ Buffer --------------------------------- *)
\* get w()
Buffer_w(bf) == Max(bf.previousMaxLineWidth, bf.i - bf.starts[bf.h - 1])

\* constructor(columns)
Buffer_constructor(columns) ==
  [color |-> DefaultColor, style |-> Normal,
   h |-> 1, i |-> 0, version |-> 0, previousMaxLineWidth |-> 0,
   starts |-> TypedArray(StartsLength0),
   buffer |-> TypedArray(BufferLength0),
   styles |-> TypedArray(BufferLength0),
   colors |-> TypedArray(BufferLength0),
   columns |-> columns]

\* clear()
Buffer_clearRealloc(bf) ==
  [bf EXCEPT !.h = 1, !.i = 0, !.version = 0, !.previousMaxLineWidth = 0,
             !.starts = TypedArray(StartsLength0),
             !.buffer = TypedArray(BufferLength0),
             !.styles = TypedArray(BufferLength0),
             !.colors = TypedArray(BufferLength0)]
Buffer_clearKeepsI(bf) ==
  [bf EXCEPT !.h = 1, !.version = 0, !.previousMaxLineWidth = 0]
Buffer_clearKeepsH(bf) ==
  [bf EXCEPT !.i = 0, !.version = 0, !.previousMaxLineWidth = 0]
Buffer_clear(bf) ==
  [bf EXCEPT !.h = 1, !.i = 0, !.version = 0, !.previousMaxLineWidth = 0]

\* newLine()
Buffer_newLineNoMax(bf) ==
  LET st == IF Length(bf.starts) = bf.h THEN Doubled(bf.starts) ELSE bf.starts
  IN [bf EXCEPT !.starts = [st EXCEPT ![bf.h] = bf.i],
                !.h = bf.h + 1,
                !.version = bf.version + 1]
Buffer_newLineNoStart(bf) ==
  LET st == IF Length(bf.starts) = bf.h THEN Doubled(bf.starts) ELSE bf.starts
  IN [bf EXCEPT !.starts = st,
                !.previousMaxLineWidth =
                    Max(bf.previousMaxLineWidth, bf.i - bf.starts[bf.h - 1]),
                !.h = bf.h + 1,
                !.version = bf.version + 1]
Buffer_newLine(bf) ==
  LET st == IF Length(bf.starts) = bf.h THEN Doubled(bf.starts) ELSE bf.starts
  IN [bf EXCEPT !.starts = [st EXCEPT ![bf.h] = bf.i],
                !.previousMaxLineWidth =
                    Max(bf.previousMaxLineWidth, bf.i - bf.starts[bf.h - 1]),
                !.h = bf.h + 1,
                !.version = bf.version + 1]

\* writeCharCode(x), from the capacity test on
Buffer_storeNoCopy(b1, x) ==
  LET grow == Length(b1.buffer) = b1.i
      bu == IF grow THEN DoubledNoCopy(b1.buffer) ELSE b1.buffer
      sy == IF grow THEN DoubledNoCopy(b1.styles) ELSE b1.styles
      co == IF grow THEN DoubledNoCopy(b1.colors) ELSE b1.colors
  IN [b1 EXCEPT !.styles = [sy EXCEPT ![b1.i] = b1.style % 256],
                !.colors = [co EXCEPT ![b1.i] = b1.color % 65536],
                !.buffer = [bu EXCEPT ![b1.i] = x % 256],
                !.i = b1.i + 1,
                !.version = b1.version + 1]
Buffer_storeRewind(b1, x) ==
  LET at == IF Length(b1.buffer) = b1.i THEN 0 ELSE b1.i
  IN [b1 EXCEPT !.styles[at] = b1.style % 256,
                !.colors[at] = b1.color % 65536,
                !.buffer[at] = x % 256,
                !.i = at + 1,
                !.version = b1.version + 1]
Buffer_store(b1, x) ==
  LET grow == Length(b1.buffer) = b1.i
      bu == IF grow THEN Doubled(b1.buffer) ELSE b1.buffer
      sy == IF grow THEN Doubled(b1.styles) ELSE b1.styles
      co == IF grow THEN Doubled(b1.colors) ELSE b1.colors
  IN [b1 EXCEPT !.styles = [sy EXCEPT ![b1.i] = b1.style % 256],
                !.colors = [co EXCEPT ![b1.i] = b1.color % 65536],
                !.buffer = [bu EXCEPT ![b1.i] = x % 256],
                !.i = b1.i + 1,
                !.version = b1.version + 1]

\* writeCharCode(x)
Buffer_writeCharCode(bf, x) ==
  LET b1 == IF bf.i - bf.starts[bf.h - 1] >= bf.columns
            THEN Buffer_newLine(bf) ELSE bf
  IN Buffer_store(b1, x)

\* writeString(s)
RECURSIVE Buffer_writeString(_, _)
Buffer_writeString(bf, str) ==
  IF str = << >> THEN bf
  ELSE LET c == Head(str)
       IN IF c = NewLine
          THEN Buffer_writeString(Buffer_newLine(bf), Tail(str))
          ELSE Buffer_writeString(Buffer_writeCharCode(bf, c), Tail(str))

(* ------------------------------ Screen --------------------------------- *)
Clamp(value, min, max) == Max(min, Min(max, value))

\* makeColor(r, g, b)
MakeColorRounded(r, gr, bl) ==
  LET r1 == Clamp(r, 0, 255)
      g1 == Clamp(gr, 0, 255)
      b1 == Clamp(bl, 0, 255)
  IN (((r1 * 32) \div 255) % 32) * 2048
     + (((g1 * 64) \div 255) % 64) * 32
     + (((b1 * 32) \div 255) % 32)
MakeColor(r, gr, bl) ==
  LET r1 == Clamp(r, 0, 255)
      g1 == Clamp(gr, 0, 255)
      b1 == Clamp(bl, 0, 255)
  IN (((r1 * 32) \div 256) % 32) * 2048
     + (((g1 * 64) \div 256) % 64) * 32
     + (((b1 * 32) \div 256) % 32)

\* buffer[i] = value on a Uint8Array: truncated to a byte, dropped when i is
\* outside the array
SetByte(a, i, value) ==
  IF i \in DOMAIN a THEN [a EXCEPT ![i] = value % 256] ELSE a

\* initializeSpriteSheet() at device pixel ratio 1, where measured is
\* Math.ceil(context.measureText("A").width)
Screen_initializeSpriteSheet(sc, measured) ==
  [sc EXCEPT !.tileW = measured,
             !.tileH = (FontSize \div 4) + FontSize,
             !.tileColumns = AtlasWidth \div measured]

\* initializeSpriteSheet(): the atlas column and row at which glyph number j
\* of the four font variants is drawn
Screen_atlasPosition(j, tileColumns) == <<j % tileColumns, j \div tileColumns>>

\* initializeColorPaletteTexture(): the four bytes of palette texel i
Screen_colorPaletteTexel(i) ==
  LET r == (i \div 2048) % 32
      gr == (i \div 32) % 64
      bl == i % 32
  IN <<((r * 256) \div 32) % 256, ((gr * 256) \div 64) % 256,
       ((bl * 256) \div 32) % 256, 255>>

\* resize(), with canvas.width and canvas.height as set by
\* onContainerSizeChanged()
Screen_resize(sc, canvasW, canvasH, measured) ==
  LET s1 == Screen_initializeSpriteSheet(sc, measured)
      screenW == canvasW \div s1.tileW
      screenH == canvasH \div s1.tileH
  IN [s1 EXCEPT !.canvasW = canvasW, !.canvasH = canvasH,
                !.w = screenW, !.h = screenH,
                !.screenBuffer = TypedArray(screenW * screenH * 4),
                !.tileMapTexture = TypedArray(screenW * screenH * 4),
                !.selectionBuffer = TypedArray(2 * MaxSelections),
                !.overlay = << >>,
                !.x = 0, !.y = 0]

\* constructor(container, fontSize = 10)
Screen_constructor(canvasW, canvasH, measured) ==
  Screen_resize([x |-> 0, y |-> 0, color |-> DefaultColor, style |-> Normal,
                 dirty |-> TRUE, w |-> 0, h |-> 0,
                 screenBuffer |-> TypedArray(0),
                 tileMapTexture |-> TypedArray(0), gl |-> << >>,
                 selectionBuffer |-> TypedArray(0), overlay |-> << >>,
                 canvasW |-> 0, canvasH |-> 0,
                 tileW |-> 0, tileH |-> 0, tileColumns |-> 0],
                canvasW, canvasH, measured)

\* uploadScreenTexture(): the tilemap texture takes the bytes of screenBuffer.
\* gl is the list of GL and canvas commands issued in the current animation
\* frame.
Screen_uploadScreenTexture(sc) ==
  [sc EXCEPT !.tileMapTexture = sc.screenBuffer,
             !.gl = Append(@, "texImage2D")]

\* renderCanvas(): one draw call over the two triangles of the quad
Screen_renderCanvas(sc) == [sc EXCEPT !.gl = Append(@, "drawArrays")]

\* renderSelectionBuffer(): the rectangles <<x0, y0, dx, dy>> filled for the
\* selections from slot number k on, up to the first free slot
RECURSIVE Screen_renderSelectionBuffer(_, _)
Screen_renderSelectionBuffer(sc, k) ==
  IF 2 * k >= Length(sc.selectionBuffer) \/ sc.selectionBuffer[2 * k] = 0
  THEN << >>
  ELSE LET x == (sc.selectionBuffer[2 * k] \div 65536) - 1
           y == (sc.selectionBuffer[2 * k] % 256) - 1
           l == sc.selectionBuffer[2 * k + 1]
       IN <<<<x * sc.tileW, y * sc.tileH, l * sc.tileW, sc.tileH>>>>
            \o Screen_renderSelectionBuffer(sc, k + 1)

\* renderCanvasOverlay(): overlay is the list of rectangles on the overlay
\* canvas
Screen_renderCanvasOverlay(sc) ==
  [sc EXCEPT !.gl = Append(@, "clearRect"),
             !.overlay = Screen_renderSelectionBuffer(sc, 0)]

\* select(x, y, l): the slots from number k on
RECURSIVE Screen_selectFrom(_, _, _, _, _)
Screen_selectFrom(sc, x, y, l, k) ==
  IF 2 * k >= Length(sc.selectionBuffer) THEN sc
  ELSE IF sc.selectionBuffer[2 * k] = 0
       THEN [sc EXCEPT !.selectionBuffer[2 * k] = (x + 1) * 65536 + (y + 1),
                       !.selectionBuffer[2 * k + 1] = l]
       ELSE Screen_selectFrom(sc, x, y, l, k + 1)
Screen_select(sc, x, y, l) == Screen_selectFrom(sc, x, y, l, 0)

\* clearAllSelections(): the slots from number k on
RECURSIVE Screen_clearSelectionsFrom(_, _)
Screen_clearSelectionsFrom(sc, k) ==
  IF 2 * k >= Length(sc.selectionBuffer) \/ sc.selectionBuffer[2 * k] = 0
  THEN sc
  ELSE Screen_clearSelectionsFrom([sc EXCEPT !.selectionBuffer[2 * k] = 0], k + 1)
Screen_clearAllSelections(sc) == Screen_clearSelectionsFrom(sc, 0)

\* enterRenderLoop(): one tick, in a frame of its own
Screen_tickAlways(sc) ==
  LET s0 == [sc EXCEPT !.gl = << >>]
  IN [Screen_renderCanvasOverlay(Screen_renderCanvas(
        Screen_uploadScreenTexture(s0))) EXCEPT !.dirty = FALSE]
Screen_tickNoUpload(sc) ==
  LET s0 == [sc EXCEPT !.gl = << >>]
  IN IF s0.dirty
     THEN [Screen_renderCanvasOverlay(Screen_renderCanvas(s0)) EXCEPT !.dirty = FALSE]
     ELSE s0
Screen_tick(sc) ==
  LET s0 == [sc EXCEPT !.gl = << >>]
  IN IF s0.dirty
     THEN [Screen_renderCanvasOverlay(Screen_renderCanvas(
             Screen_uploadScreenTexture(s0))) EXCEPT !.dirty = FALSE]
     ELSE s0

\* moveTo(x, y)
Screen_moveToNoClamp(sc, x, y) == [sc EXCEPT !.x = x, !.y = y]
Screen_moveTo(sc, x, y) ==
  [sc EXCEPT !.x = Clamp(x, 0, sc.w), !.y = Clamp(y, 0, sc.h)]

\* invalidate()
Screen_invalidate(sc) == [sc EXCEPT !.dirty = TRUE]

\* clear()
Screen_clearNoInvalidate(sc) ==
  [sc EXCEPT !.screenBuffer = [p \in DOMAIN sc.screenBuffer |-> 0]]
Screen_clear(sc) ==
  Screen_invalidate([sc EXCEPT !.screenBuffer = [p \in DOMAIN sc.screenBuffer |-> 0]])

\* the four bytes of one tilemap cell, stored from byte index i on
StoreCell(a, i, c, tileColumns, color) ==
  SetByte(SetByte(SetByte(SetByte(a,
    i, c % tileColumns),
    i + 1, c \div tileColumns),
    i + 2, color),
    i + 3, color \div 256)

\* writeCharCode(c)
Screen_writeCharCodeInvalidateFirst(sc, c) ==
  LET s1 == Screen_invalidate(sc)
      i == (s1.w * s1.y + s1.x) * 4
      c1 == c + GlyphCount * s1.style
  IN IF sc.x >= sc.w \/ sc.x < 0 \/ sc.y >= sc.h \/ sc.y < 0
     THEN s1
     ELSE [s1 EXCEPT !.screenBuffer =
                         StoreCell(s1.screenBuffer, i, c1, s1.tileColumns, s1.color),
                     !.x = IF s1.x < s1.w THEN s1.x + 1 ELSE s1.x]
Screen_writeCharCode(sc, c) ==
  IF sc.x >= sc.w \/ sc.x < 0 \/ sc.y >= sc.h \/ sc.y < 0
  THEN sc
  ELSE LET s1 == Screen_invalidate(sc)
           i == (s1.w * s1.y + s1.x) * 4
           c1 == c + GlyphCount * s1.style
       IN [s1 EXCEPT !.screenBuffer =
                         StoreCell(s1.screenBuffer, i, c1, s1.tileColumns, s1.color),
                     !.x = IF s1.x < s1.w THEN s1.x + 1 ELSE s1.x]

\* writeString(s)
RECURSIVE Screen_writeString(_, _)
Screen_writeString(sc, str) ==
  IF str = << >> THEN sc
  ELSE LET s1 == CHOOSE r \in {Screen_writeCharCode(v, Head(str)) : v \in {sc}} : TRUE
       IN Screen_writeString(s1, Tail(str))

\* putChar(c, x, y, color, style)
Screen_putCharTransposed(sc, c, x, y, color, style) ==
  LET x1 == Clamp(x, 0, sc.w)
      y1 == Clamp(y, 0, sc.h)
      i == (x1 * sc.w + y1) * 4
      c1 == c + GlyphCount * style
  IN [sc EXCEPT !.screenBuffer =
                    StoreCell(sc.screenBuffer, i, c1, sc.tileColumns, color)]
Screen_putChar(sc, c, x, y, color, style) ==
  LET x1 == Clamp(x, 0, sc.w)
      y1 == Clamp(y, 0, sc.h)
      i == (y1 * sc.w + x1) * 4
      c1 == c + GlyphCount * style
  IN [sc EXCEPT !.screenBuffer =
                    StoreCell(sc.screenBuffer, i, c1, sc.tileColumns, color)]

\* writeBuffer: the inner loop over x, for the row that starts at st
RECURSIVE Screen_writeBufferRow(_, _, _, _, _, _, _, _, _)
Screen_writeBufferRow(sc, bf, sx, dx, dy, st, l, y, x) ==
  IF x >= l THEN sc
  ELSE LET p == st + sx + x
       IN IF p > bf.i THEN sc
          ELSE LET s1 == CHOOSE r \in {Screen_putChar(v, bf.buffer[p], dx + x, dy + y,
                                                     bf.colors[p], bf.styles[p])
                                        : v \in {sc}} : TRUE
               IN Screen_writeBufferRow(s1, bf, sx, dx, dy, st, l, y, x + 1)

\* writeBuffer: the outer loop over y
RECURSIVE Screen_writeBufferRows(_, _, _, _, _, _, _, _, _)
Screen_writeBufferRows(sc, bf, sx, sy, dx, dy, w, h, y) ==
  IF y >= h THEN sc
  ELSE LET st == bf.starts[sy + y]
           e == IF sy + y + 1 = bf.h THEN bf.i ELSE bf.starts[sy + y + 1]
           l == Min(e - st - sx, w)
       IN Screen_writeBufferRows(
            Screen_writeBufferRow(sc, bf, sx, dx, dy, st, l, y, 0),
            bf, sx, sy, dx, dy, w, h, y + 1)

\* writeBuffer(buffer, sx, sy, sw = 1024, sh = 1024)
Screen_writeBuffer(sc, bf, sx0, sy0, sw0, sh0) ==
  LET dx == sc.x
      dy == sc.y
      sx == Clamp(sx0, 0, Buffer_w(bf) - 1)
      sy == Clamp(sy0, 0, bf.h - 1)
      sw == Clamp(sw0, 0, Buffer_w(bf) - sx)
      sh == Clamp(sh0, 0, bf.h - sy)
      w == Min(sw, sc.w - dx)
      h == Min(sh, sc.h - dy)
  IN Screen_invalidate(Screen_writeBufferRows(sc, bf, sx, sy, dx, dy, w, h, 0))

\* writeBuffer: what its loops read of the Buffer. cells holds <<row, p>> for
\* every position p of buffer.buffer, buffer.colors and buffer.styles read
\* while copying source row row; starts holds every index of buffer.starts
\* read.
Screen_writeBufferReads(sc, bf, sx0, sy0, sw0, sh0) ==
  LET dx == sc.x
      dy == sc.y
      sx == Clamp(sx0, 0, Buffer_w(bf) - 1)
      sy == Clamp(sy0, 0, bf.h - 1)
      sw == Clamp(sw0, 0, Buffer_w(bf) - sx)
      sh == Clamp(sh0, 0, bf.h - sy)
      w == Min(sw, sc.w - dx)
      h == Min(sh, sc.h - dy)
      rows == {sy + y : y \in 0..(h - 1)}
      st(row) == bf.starts[row]
      e(row) == IF row + 1 = bf.h THEN bf.i ELSE bf.starts[row + 1]
      l(row) == Min(e(row) - st(row) - sx, w)
      ps(row) == {p \in {st(row) + sx + x : x \in 0..(l(row) - 1)} : ~(p > bf.i)}
  IN [cells |-> UNION {{<<row, p>> : p \in ps(row)} : row \in rows},
      starts |-> rows \cup {row + 1 : row \in {r \in rows : r + 1 # bf.h}}]

(* ------------------------------- View ---------------------------------- *)
\* x.toString() of a non-negative integer, as char codes
RECURSIVE NumberToString(_)
NumberToString(n) == IF n < 10 THEN <<48 + n>> ELSE NumberToString(n \div 10) \o <<48 + (n % 10)>>

\* numberWithCommas(x): a comma before every group of three trailing digits
RECURSIVE NumberWithCommas(_)
NumberWithCommas(n) ==
  IF n < 1000 THEN NumberToString(n)
  ELSE LET r == n % 1000
       IN NumberWithCommas(n \div 1000)
          \o <<44, 48 + (r \div 100), 48 + ((r \div 10) % 10), 48 + (r % 10)>>

\* byteFormatter(x): numberWithCommas(Math.round(x / 1024)) + "KB"
ByteFormatter(n) == NumberWithCommas((n + 512) \div 1024) \o <<75, 66>>

\* "Buffer: " + byteFormatter(buffer.i) + " Lines: " + numberWithCommas(buffer.h)
StatusLine(bf) ==
  <<66, 117, 102, 102, 101, 114, 58, 32>> \o ByteFormatter(bf.i)
  \o <<32, 76, 105, 110, 101, 115, 58, 32>> \o NumberWithCommas(bf.h)

\* constructor(screen, buffer)
View_constructor == [x |-> 0, y |-> 0, version |-> 0]

\* render()
View_render(sc, bf, vw) ==
  LET s1 == Screen_moveTo(Screen_clear(sc), 0, 0)
      s2 == CHOOSE r \in {Screen_writeBuffer(v, bf, vw.x, vw.y, DefaultSw, v.h - 2)
                          : v \in {s1}} : TRUE
      s3 == CHOOSE r \in {Screen_moveTo([v EXCEPT !.color = MakeColor(256, 256, 0)],
                                        0, v.h - 1)
                          : v \in {s2}} : TRUE
  IN Screen_writeString(s3, StatusLine(bf))

\* scroll(x, y)
View_scrollToBufferEdge(vw, bf, sc, x, y) ==
  [vw EXCEPT !.y = Clamp(vw.y + y, 0, bf.h),
             !.x = Clamp(vw.x + x, 0, Buffer_w(bf)),
             !.version = 0]
View_scroll(vw, bf, sc, x, y) ==
  [vw EXCEPT !.y = Clamp(vw.y + y, 0, bf.h - sc.h),
             !.x = Clamp(vw.x + x, 0, Buffer_w(bf) - sc.w),
             !.version = 0]

\* scrollToBottom(): the scroll position it sets; the render that follows is
\* View_render at that position
View_scrollToBottom(vw, bf, sc) ==
  [vw EXCEPT !.x = 0, !.y = Clamp(bf.h - sc.h, 0, bf.h - 1)]

(* --------------------------- call history ------------------------------ *)
\* g records what the caller asked for since the last clear():
\*   sinceBreak  characters written since the last line break of any kind
\*               (a newLine() call, a wrap forced by the column cap, clear())
\*   sinceCall   characters written since the caller's last newLine()/clear()
\*   nonNewline  code points other than 10 handed to writeCharCode/writeString
\*   growths     how often the data arrays were doubled
\* scrolled: View.scroll was called since the View last rendered.
\* mutated: the Buffer was changed by a call since the View last rendered;
\* ticked: a View tick has run since the last Buffer mutation.
G0 == [sinceBreak |-> 0, sinceCall |-> 0, nonNewline |-> 0, growths |-> 0]

G_newLine(gh) == [gh EXCEPT !.sinceBreak = 0, !.sinceCall = 0]

G_writeCharCode(gh, bf, x) ==
  LET nb == Buffer_writeCharCode(bf, x)
  IN [sinceBreak |-> (IF nb.h > bf.h THEN 0 ELSE gh.sinceBreak) + 1,
      sinceCall  |-> gh.sinceCall + 1,
      nonNewline |-> gh.nonNewline + (IF x # NewLine THEN 1 ELSE 0),
      growths    |-> gh.growths +
                     (IF Length(nb.buffer) > Length(bf.buffer) THEN 1 ELSE 0)]

RECURSIVE G_writeString(_, _, _)
G_writeString(gh, bf, str) ==
  IF str = << >> THEN gh
  ELSE LET c == Head(str)
       IN IF c = NewLine
          THEN G_writeString(G_newLine(gh), Buffer_newLine(bf), Tail(str))
          ELSE G_writeString(G_writeCharCode(gh, bf, c),
                             Buffer_writeCharCode(bf, c), Tail(str))

InBounds(bf) == bf.i <= MaxI /\ bf.h <= MaxH

(* ------------------------------ actions -------------------------------- *)
Init ==
  /\ \E columns \in 1..MaxColumns : b = Buffer_constructor(columns)
  /\ g = G0
  /\ fresh = b
  /\ freshPen = b
  /\ \E size \in CanvasSizes, measured \in MeasuredWidths :
       screen = Screen_constructor(size[1], size[2], measured)
  /\ view = View_constructor
  /\ mutated = FALSE
  /\ ticked = FALSE
  /\ scrolled = FALSE
  /\ last = [op |-> "new", n |-> 0]

WriteCharCode(x) ==
  /\ InBounds(Buffer_writeCharCode(b, x))
  /\ b' = Buffer_writeCharCode(b, x)
  /\ g' = G_writeCharCode(g, b, x)
  /\ fresh' = Buffer_writeCharCode(fresh, x)
  /\ freshPen' = Buffer_writeCharCode(freshPen, x)
  /\ mutated' = TRUE
  /\ ticked' = FALSE
  /\ UNCHANGED <<screen, view, scrolled, last>>

WriteString(str) ==
  /\ InBounds(Buffer_writeString(b, str))
  /\ b' = Buffer_writeString(b, str)
  /\ g' = G_writeString(g, b, str)
  /\ fresh' = Buffer_writeString(fresh, str)
  /\ freshPen' = Buffer_writeString(freshPen, str)
  /\ mutated' = (mutated \/ str # << >>)
  /\ ticked' = (ticked /\ str = << >>)
  /\ UNCHANGED <<screen, view, scrolled, last>>

DoNewLine ==
  /\ InBounds(Buffer_newLine(b))
  /\ b' = Buffer_newLine(b)
  /\ g' = G_newLine(g)
  /\ fresh' = Buffer_newLine(fresh)
  /\ freshPen' = Buffer_newLine(freshPen)
  /\ mutated' = TRUE
  /\ ticked' = FALSE
  /\ UNCHANGED <<screen, view, scrolled, last>>

\* clear(); the two reference buffers are constructed anew at this point,
\* fresh as the constructor leaves it, freshPen with the active color and
\* style of the cleared buffer.
DoClear ==
  /\ b' = Buffer_clear(b)
  /\ g' = G0
  /\ fresh' = Buffer_constructor(b.columns)
  /\ freshPen' = [Buffer_constructor(b.columns) EXCEPT
                     !.color = b.color, !.style = b.style]
  /\ mutated' = (mutated \/ b' # b)
  /\ ticked' = (ticked /\ b' = b)
  /\ UNCHANGED <<screen, view, scrolled, last>>

\* buffer.color = c (public field, set by the logging facade)
SetColor(c) ==
  /\ c # b.color
  /\ b' = [b EXCEPT !.color = c]
  /\ fresh' = [fresh EXCEPT !.color = c]
  /\ freshPen' = [freshPen EXCEPT !.color = c]
  /\ UNCHANGED <<g, screen, view, mutated, ticked, scrolled, last>>

\* buffer.style = s
SetStyle(st) ==
  /\ st # b.style
  /\ b' = [b EXCEPT !.style = st]
  /\ fresh' = [fresh EXCEPT !.style = st]
  /\ freshPen' = [freshPen EXCEPT !.style = st]
  /\ UNCHANGED <<g, screen, view, mutated, ticked, scrolled, last>>

\* View.enterRenderLoop: one tick
ViewTick ==
  /\ IF view.version # b.version
     THEN /\ screen' = View_render(screen, b, view)
          /\ view' = [view EXCEPT !.version = b.version]
          /\ mutated' = FALSE
          /\ scrolled' = FALSE
     ELSE UNCHANGED <<screen, view, mutated, scrolled>>
  /\ ticked' = TRUE
  /\ UNCHANGED <<b, g, fresh, freshPen, last>>

\* Buffer operations with the caller's pen left alone.
Next ==
  \/ \E x \in Codes : WriteCharCode(x)
  \/ \E str \in Strings : WriteString(str)
  \/ DoNewLine
  \/ DoClear

Spec == Init /\ [][Next]_vars

\* Writes under a changing color and style, without clear().
NextPen ==
  \/ \E x \in PenCodes : WriteCharCode(x)
  \/ \E str \in PenStrings : WriteString(str)
  \/ DoNewLine
  \/ \E c \in Colors : SetColor(c)
  \/ \E st \in Styles : SetStyle(st)

SpecPen == Init /\ [][NextPen]_vars

\* Writes under a changing color, with clear().
NextClear ==
  \/ \E x \in PenCodes : WriteCharCode(x)
  \/ \E str \in PenStrings : WriteString(str)
  \/ DoNewLine
  \/ DoClear
  \/ \E c \in Colors : SetColor(c)

SpecClear == Init /\ [][NextClear]_vars

\* A View bound to the Buffer and a Screen: writes, clear() and View ticks.
NextView ==
  \/ \E x \in ViewCodes : WriteCharCode(x)
  \/ \E str \in ViewStrings : WriteString(str)
  \/ DoNewLine
  \/ DoClear
  \/ ViewTick

\* The Buffer of these runs has the largest column cap.
InitView == Init /\ b.columns = MaxColumns

SpecView == InitView /\ [][NextView]_vars

\* A Screen driven directly: the Buffer is written, the cursor moved, cells
\* written one at a time, as strings and from the Buffer, the canvas resized
\* and the render loop ticks. last names the Screen operation called last and
\* flips n at every call.
Called(op) == last' = [op |-> op, n |-> 1 - last.n]

ScreenMoveTo(x, y) ==
  /\ screen' = Screen_moveTo(screen, x, y)
  /\ Called("moveTo")
  /\ UNCHANGED <<b, g, fresh, freshPen, view, mutated, ticked, scrolled>>

ScreenWriteCharCode(c) ==
  /\ screen' = Screen_writeCharCode(screen, c)
  /\ Called("writeCharCode")
  /\ UNCHANGED <<b, g, fresh, freshPen, view, mutated, ticked, scrolled>>

ScreenWriteString(str) ==
  /\ screen' = Screen_writeString(screen, str)
  /\ Called("writeString")
  /\ UNCHANGED <<b, g, fresh, freshPen, view, mutated, ticked, scrolled>>

ScreenWriteBuffer(sx, sy, sw, sh) ==
  /\ screen' = Screen_writeBuffer(screen, b, sx, sy, sw, sh)
  /\ Called("writeBuffer")
  /\ UNCHANGED <<b, g, fresh, freshPen, view, mutated, ticked, scrolled>>

\* the size poll of listenForContainerSizeChanges() sees a new container size
ScreenResize(size, measured) ==
  /\ size # <<screen.canvasW, screen.canvasH>>
  /\ screen' = Screen_resize(screen, size[1], size[2], measured)
  /\ Called("resize")
  /\ ticked' = FALSE
  /\ UNCHANGED <<b, g, fresh, freshPen, view, mutated, scrolled>>

ScreenClear ==
  /\ screen' = Screen_clear(screen)
  /\ Called("clear")
  /\ UNCHANGED <<b, g, fresh, freshPen, view, mutated, ticked, scrolled>>

\* Screen.enterRenderLoop: one tick
ScreenTick ==
  /\ screen' = Screen_tick(screen)
  /\ Called("tick")
  /\ UNCHANGED <<b, g, fresh, freshPen, view, mutated, ticked, scrolled>>

NextScreen ==
  \/ \E str \in ScreenBufferStrings : WriteString(str)
  \/ DoClear
  \/ ScreenClear
  \/ \E xy \in MoveTargets : ScreenMoveTo(xy[1], xy[2])
  \/ \E c \in ScreenCodes : ScreenWriteCharCode(c)
  \/ \E str \in ScreenStrings : ScreenWriteString(str)
  \/ \E r \in SourceRects : ScreenWriteBuffer(r[1], r[2], r[3], r[4])
  \/ \E size \in ScreenCanvasSizes, measured \in MeasuredWidths :
       ScreenResize(size, measured)
  \/ ScreenTick

InitScreen ==
  /\ b = Buffer_constructor(MaxColumns)
  /\ g = G0
  /\ fresh = b
  /\ freshPen = b
  /\ \E size \in ScreenCanvasSizes, measured \in MeasuredWidths :
       screen = Screen_constructor(size[1], size[2], measured)
  /\ view = View_constructor
  /\ mutated = FALSE
  /\ ticked = FALSE
  /\ scrolled = FALSE
  /\ last = [op |-> "new", n |-> 0]

SpecScreen == InitScreen /\ [][NextScreen]_vars

\* View.scroll(dx, dy), as called by the mouse wheel handler
Scroll(dx, dy) ==
  /\ view' = View_scroll(view, b, screen, dx, dy)
  /\ scrolled' = TRUE
  /\ ticked' = FALSE
  /\ UNCHANGED <<b, g, fresh, freshPen, screen, mutated, last>>

\* View.scrollToBottom()
ScrollToBottom ==
  /\ view' = View_scrollToBottom(view, b, screen)
  /\ screen' = View_render(screen, b, view')
  /\ mutated' = FALSE
  /\ scrolled' = FALSE
  /\ UNCHANGED <<b, g, fresh, freshPen, ticked, last>>

\* A View that is scrolled while the Buffer is written and cleared, the
\* canvas resized and the View ticks.
NextScroll ==
  \/ \E str \in ScrollStrings : WriteString(str)
  \/ DoNewLine
  \/ DoClear
  \/ \E d \in ScrollDeltas : Scroll(d[1], d[2])
  \/ ScrollToBottom
  \/ \E size \in ScrollCanvasSizes, measured \in MeasuredWidths :
       ScreenResize(size, measured)
  \/ ViewTick

InitScroll ==
  /\ b = Buffer_constructor(MaxColumns)
  /\ g = G0
  /\ fresh = b
  /\ freshPen = b
  /\ \E size \in ScrollCanvasSizes, measured \in MeasuredWidths :
       screen = Screen_constructor(size[1], size[2], measured)
  /\ view = View_constructor
  /\ mutated = FALSE
  /\ ticked = FALSE
  /\ scrolled = FALSE
  /\ last = [op |-> "new", n |-> 0]

SpecScroll == InitScroll /\ [][NextScroll]_vars

\* writeString(s) of a text up to MaxText characters long
TextWriteString(str) ==
  /\ Buffer_writeString(b, str).i <= MaxText
  /\ Buffer_writeString(b, str).h <= MaxH
  /\ b' = Buffer_writeString(b, str)
  /\ g' = G_writeString(g, b, str)
  /\ fresh' = Buffer_writeString(fresh, str)
  /\ freshPen' = Buffer_writeString(freshPen, str)
  /\ mutated' = TRUE
  /\ ticked' = FALSE
  /\ UNCHANGED <<screen, view, scrolled, last>>

\* A text written to the Buffer and rendered by the View's tick.
NextText ==
  \/ \E str \in TextStrings : TextWriteString(str)
  \/ DoClear
  \/ ViewTick

InitText ==
  /\ b = Buffer_constructor(MaxColumns)
  /\ g = G0
  /\ fresh = b
  /\ freshPen = b
  /\ \E size \in TextCanvasSizes, measured \in MeasuredWidths :
       screen = Screen_constructor(size[1], size[2], measured)
  /\ view = View_constructor
  /\ mutated = FALSE
  /\ ticked = FALSE
  /\ scrolled = FALSE
  /\ last = [op |-> "new", n |-> 0]

SpecText == InitText /\ [][NextText]_vars

\* A View over rows of different letters: writes, scrolling and View ticks.
NextWindow ==
  \/ \E str \in WindowStrings : WriteString(str)
  \/ \E d \in WindowDeltas : Scroll(d[1], d[2])
  \/ ScrollToBottom
  \/ ViewTick

InitWindow ==
  /\ b = Buffer_constructor(MaxColumns)
  /\ g = G0
  /\ fresh = b
  /\ freshPen = b
  /\ \E size \in WindowCanvasSizes, measured \in MeasuredWidths :
       screen = Screen_constructor(size[1], size[2], measured)
  /\ view = View_constructor
  /\ mutated = FALSE
  /\ ticked = FALSE
  /\ scrolled = FALSE
  /\ last = [op |-> "new", n |-> 0]

SpecWindow == InitWindow /\ [][NextWindow]_vars

\* A Screen of one cell whose font measures to one of the glyph widths and
\* whose style field was set by the caller: every code point is written.
NextGlyph ==
  \/ \E c \in AllCodes : ScreenWriteCharCode(c)
  \/ ScreenClear

InitGlyph ==
  /\ b = Buffer_constructor(MaxColumns)
  /\ g = G0
  /\ fresh = b
  /\ freshPen = b
  /\ \E measured \in GlyphWidths, st \in AllStyles :
       screen = [Screen_constructor(measured, (FontSize \div 4) + FontSize, measured)
                   EXCEPT !.style = st]
  /\ view = View_constructor
  /\ mutated = FALSE
  /\ ticked = FALSE
  /\ scrolled = FALSE
  /\ last = [op |-> "new", n |-> 0]

SpecGlyph == InitGlyph /\ [][NextGlyph]_vars

\* A Screen of one cell whose color field was set by the caller to
\* makeColor(r, g, b).
NextColor ==
  \/ \E c \in ColorCodes : ScreenWriteCharCode(c)
  \/ ScreenMoveTo(0, 0)
  \/ ScreenClear

InitColor ==
  /\ b = Buffer_constructor(MaxColumns)
  /\ g = G0
  /\ fresh = b
  /\ freshPen = b
  /\ \E rgb \in ColorInputs, measured \in MeasuredWidths :
       screen = [Screen_constructor(measured, (FontSize \div 4) + FontSize, measured)
                   EXCEPT !.color = MakeColor(rgb[1], rgb[2], rgb[3])]
  /\ view = View_constructor
  /\ mutated = FALSE
  /\ ticked = FALSE
  /\ scrolled = FALSE
  /\ last = [op |-> "new", n |-> 0]

SpecColor == InitColor /\ [][NextColor]_vars

ScreenSelect(x, y, l) ==
  /\ screen' = Screen_select(screen, x, y, l)
  /\ Called("select")
  /\ UNCHANGED <<b, g, fresh, freshPen, view, mutated, ticked, scrolled>>

ScreenClearAllSelections ==
  /\ screen' = Screen_clearAllSelections(screen)
  /\ Called("clearAllSelections")
  /\ UNCHANGED <<b, g, fresh, freshPen, view, mutated, ticked, scrolled>>

\* A Screen on which cells are selected and written while the render loop
\* ticks.
NextSelect ==
  \/ \E sel \in Selections : ScreenSelect(sel[1], sel[2], sel[3])
  \/ ScreenClearAllSelections
  \/ \E c \in SelectCodes : ScreenWriteCharCode(c)
  \/ ScreenTick

InitSelect ==
  /\ b = Buffer_constructor(MaxColumns)
  /\ g = G0
  /\ fresh = b
  /\ freshPen = b
  /\ \E size \in SelectCanvasSizes, measured \in MeasuredWidths :
       screen = Screen_constructor(size[1], size[2], measured)
  /\ view = View_constructor
  /\ mutated = FALSE
  /\ ticked = FALSE
  /\ scrolled = FALSE
  /\ last = [op |-> "new", n |-> 0]

SpecSelect == InitSelect /\ [][NextSelect]_vars

\* A View and a Screen whose render loops both keep ticking while the Buffer
\* is written and the View scrolled; no clear() and no resize.
NextLive ==
  \/ \E str \in LiveStrings : WriteString(str)
  \/ \E d \in LiveDeltas : Scroll(d[1], d[2])
  \/ ScrollToBottom
  \/ ViewTick
  \/ ScreenTick

InitLive ==
  /\ b = Buffer_constructor(MaxColumns)
  /\ g = G0
  /\ fresh = b
  /\ freshPen = b
  /\ \E size \in LiveCanvasSizes, measured \in MeasuredWidths :
       screen = Screen_constructor(size[1], size[2], measured)
  /\ view = View_constructor
  /\ mutated = FALSE
  /\ ticked = FALSE
  /\ scrolled = FALSE
  /\ last = [op |-> "new", n |-> 0]

\* requestAnimationFrame calls both tick functions again and again
SpecLive ==
  InitLive /\ [][NextLive]_vars /\ WF_vars(ViewTick) /\ WF_vars(ScreenTick)

\* The same with a canvas that is resized and without scrolling.
NextResize ==
  \/ \E str \in LiveStrings : WriteString(str)
  \/ \E size \in ResizeCanvasSizes, measured \in MeasuredWidths :
       ScreenResize(size, measured)
  \/ ViewTick
  \/ ScreenTick

SpecResize ==
  InitLive /\ [][NextResize]_vars /\ WF_vars(ViewTick) /\ WF_vars(ScreenTick)

(* ------------------------------ claims --------------------------------- *)
Written(bf) == 0..(bf.i - 1)
Rows(bf) == 0..(bf.h - 1)
\* length of row r, read off the line-start index
RowLength(bf, r) ==
  IF r = bf.h - 1 THEN bf.i - bf.starts[r] ELSE bf.starts[r + 1] - bf.starts[r]
SetMax(S) == CHOOSE m \in S : \A n \in S : m >= n
ScanWidth(bf) == SetMax({RowLength(bf, r) : r \in Rows(bf)})
SameCell(b1, b2, p) ==
  /\ b1.buffer[p] = b2.buffer[p]
  /\ b1.colors[p] = b2.colors[p]
  /\ b1.styles[p] = b2.styles[p]
RECURSIVE Pow2(_)
Pow2(n) == IF n = 0 THEN 1 ELSE 2 * Pow2(n - 1)

\* C1: without clear(), a written position p < i never changes its code,
\* color or style again, and the write index i never decreases.
C1_AppendOnly ==
  [][/\ b'.i >= b.i
     /\ \A p \in Written(b) : SameCell(b', b, p)]_vars
C1_Witness ==
  /\ b.i = 3
  /\ b.colors[0] # b.colors[1]
  /\ b.styles[1] # b.styles[2]

\* C2: writeCharCode called with i equal to the capacity doubles the three
\* parallel arrays, keeps every written cell at its index and stores the new
\* character at index i; after any number of growths the three arrays have
\* the same length, the initial one doubled once per growth.
C2_GrowthStep(x) ==
  (b.i = Length(b.buffer) /\ WriteCharCode(x)) =>
     /\ Length(b'.buffer) = 2 * Length(b.buffer)
     /\ Length(b'.styles) = 2 * Length(b.styles)
     /\ Length(b'.colors) = 2 * Length(b.colors)
     /\ \A p \in Written(b) : SameCell(b', b, p)
     /\ b'.i = b.i + 1
     /\ b'.buffer[b.i] = x % 256
     /\ b'.colors[b.i] = b.color
     /\ b'.styles[b.i] = b.style
C2_GrowthPreserves ==
  [][/\ \A x \in PenCodes : C2_GrowthStep(x)
     /\ Length(b'.buffer) = BufferLength0 * Pow2(g'.growths)
     /\ Length(b'.styles) = Length(b'.buffer)
     /\ Length(b'.colors) = Length(b'.buffer)]_vars
C2_Witness ==
  /\ g.growths >= 2
  /\ b.i = 3
  /\ b.colors[0] = KeyColor
  /\ b.styles[0] = Italic
  /\ b.colors[2] = DefaultColor

\* C3: no stored byte buffer[p], p < i, equals the newline code 10.
C3_NoNewlineStored == \A p \in Written(b) : b.buffer[p] # NewLine

\* C4: the derived width w equals the maximum row length found by scanning
\* the line-start index over all rows, the in-progress last row included.
C4_WidthIsScanMax == Buffer_w(b) = ScanWidth(b)
C4_Witness ==
  /\ b.h = 3
  /\ RowLength(b, 0) > RowLength(b, 2)
  /\ RowLength(b, 2) > RowLength(b, 1)
  /\ Length(b.starts) > b.h

\* C5 as stated: after writes that contain no newline code point, the width
\* equals the number of characters written since the caller's last
\* newLine() or clear().
C5_WidthIsWritten == g.sinceCall > 0 => Buffer_w(b) = g.sinceCall
\* C5 amended: the width equals the larger of the longest completed row
\* (previousMaxLineWidth) and the number of characters written since the
\* last line break, be it a newLine() call, a wrap forced by the column cap
\* or clear().
C5_WidthIsMaxOfWritten ==
  Buffer_w(b) = Max(b.previousMaxLineWidth, g.sinceBreak)
C5_Witness ==
  /\ g.sinceCall > 0
  /\ g.sinceBreak > 0
  /\ Buffer_w(b) > g.sinceCall

\* C6: every row is at most `columns` long and the number of stored
\* characters i equals the number of non-newline code points written.
C6_ColumnCap ==
  /\ \A r \in Rows(b) : RowLength(b, r) <= b.columns
  /\ b.i = g.nonNewline

\* C7: every step that changes the buffer leaves version strictly greater.
C7_VersionMonotonic == [][b'.version > b.version]_vars

\* C8 as stated: after clear(), the written data and colors equal those of
\* a freshly constructed Buffer given the same calls.
C8_SameAsFresh ==
  /\ b.i = fresh.i
  /\ \A p \in Written(b) :
       b.buffer[p] = fresh.buffer[p] /\ b.colors[p] = fresh.colors[p]
\* C8 amended: after clear(), the written data and colors equal those of a
\* freshly constructed Buffer whose active color is first set to the color
\* that was active when clear() was called, given the same calls.
C8_SameAsFreshWithPen ==
  /\ b.i = freshPen.i
  /\ \A p \in Written(b) :
       b.buffer[p] = freshPen.buffer[p] /\ b.colors[p] = freshPen.colors[p]
C8_Witness ==
  /\ b.i >= 2
  /\ Length(b.buffer) > Length(freshPen.buffer)
  /\ b.colors[0] # fresh.colors[0]
  /\ b.colors[1] # b.colors[0]

\* C9: clear() sets h to 1, i to 0, version to 0 and previousMaxLineWidth
\* to 0, so that the width is 0, and leaves the lengths of the four arrays
\* unchanged; no step shrinks an array.
C9_ClearResets ==
  [][/\ Length(b'.buffer) >= Length(b.buffer)
     /\ Length(b'.colors) >= Length(b.colors)
     /\ Length(b'.styles) >= Length(b.styles)
     /\ Length(b'.starts) >= Length(b.starts)
     /\ DoClear =>
          /\ b'.h = 1 /\ b'.i = 0 /\ b'.version = 0
          /\ b'.previousMaxLineWidth = 0
          /\ Buffer_w(b') = 0
          /\ Length(b'.buffer) = Length(b.buffer)
          /\ Length(b'.colors) = Length(b.colors)
          /\ Length(b'.styles) = Length(b.styles)
          /\ Length(b'.starts) = Length(b.starts)]_vars
C9_Witness ==
  /\ b.i = 0 /\ b.h = 1 /\ b.version = 0
  /\ Length(b.buffer) = 4 * BufferLength0
  /\ Length(b.starts) = 4 * StartsLength0
  /\ b.starts[1] > 0

\* C19 as stated: the recorded line starts are strictly increasing.
C19_StartsStrictlyIncreasing ==
  \A r1 \in Rows(b), r2 \in Rows(b) : r1 < r2 => b.starts[r1] < b.starts[r2]
\* C19 amended: the recorded line starts are non-decreasing, starts[r] <=
\* starts[r'] for r < r' < h, and none exceeds the write index i; two starts
\* are equal exactly when the rows between them are empty.
C19_StartsNonDecreasing ==
  /\ \A r1 \in Rows(b), r2 \in Rows(b) :
        r1 < r2 => /\ b.starts[r1] <= b.starts[r2]
                   /\ (b.starts[r1] = b.starts[r2]) <=>
                        (\A r \in r1..(r2 - 1) : RowLength(b, r) = 0)
  /\ b.starts[b.h - 1] <= b.i
C19_Witness ==
  /\ b.h = 3
  /\ b.starts[1] = b.starts[2]
  /\ b.starts[1] > b.starts[0]
  /\ b.i > b.starts[2]

CursorOutside(sc) == sc.x >= sc.w \/ sc.x < 0 \/ sc.y >= sc.h \/ sc.y < 0
\* the cells of a tilemap, and the bytes of cell k
CellsOf(a) == 0..((Length(a) \div 4) - 1)
Cell(a, k) == <<a[4 * k], a[4 * k + 1], a[4 * k + 2], a[4 * k + 3]>>
Positions(log, name) == {k \in DOMAIN log : log[k] = name}

\* the scroll position lies in the range the buffer and the screen allow
ScrollInRange(vw, bf, sc) ==
  /\ 0 <= vw.y /\ vw.y <= Max(0, bf.h - sc.h)
  /\ 0 <= vw.x /\ vw.x <= Max(0, Buffer_w(bf) - sc.w)

\* C11: once a View tick has run after a scroll(), the tilemap holds the
\* render of the buffer at the View's scroll position, whatever the buffer's
\* version is.
C11_ScrollForcesRender ==
  (scrolled /\ ticked) =>
    screen.screenBuffer = View_render(screen, b, view).screenBuffer

\* C12: right after any scroll(dx, dy) the scroll position lies within
\* [0, max(0, h - rows)] and [0, max(0, w - columns)].
C12_ScrollClamped ==
  [][\A d \in ScrollDeltas :
       Scroll(d[1], d[2]) => ScrollInRange(view', b', screen')]_vars
C12_Witness ==
  /\ scrolled /\ ~ticked
  /\ view.y > 0 /\ view.y = b.h - screen.h
  /\ view.x > 0 /\ view.x = Buffer_w(b) - screen.w

\* C13: in every reachable state the scroll position lies within
\* [0, max(0, h - rows)] and [0, max(0, w - columns)].
C13_ScrollAlwaysInRange == ScrollInRange(view, b, screen)

\* C14 as stated: in every reachable Screen state the cursor lies inside the
\* grid, 0 <= x < columns and 0 <= y < rows.
C14_CursorInsideGrid ==
  /\ 0 <= screen.x /\ screen.x < screen.w
  /\ 0 <= screen.y /\ screen.y < screen.h
\* C14 amended: in every reachable Screen state the cursor lies inside the
\* grid or on its far edge, 0 <= x <= columns and 0 <= y <= rows.
C14_CursorWithinEdge ==
  /\ 0 <= screen.x /\ screen.x <= screen.w
  /\ 0 <= screen.y /\ screen.y <= screen.h
C14_Witness ==
  /\ last.op = "moveTo"
  /\ screen.x = screen.w
  /\ screen.y = screen.h
  /\ screen.w > 0 /\ screen.h > 0

\* C15: a writeCharCode called while the cursor is outside the grid changes
\* nothing of the Screen: no tilemap byte, not the cursor, not the dirty flag.
C15_OutsideWriteDropped ==
  [][\A c \in ScreenCodes :
       (CursorOutside(screen) /\ ScreenWriteCharCode(c)) => screen' = screen]_vars
C15_Witness ==
  /\ last.op = "writeCharCode"
  /\ screen.x >= screen.w
  /\ screen.y >= screen.h
  /\ ~screen.dirty
  /\ \E k \in CellsOf(screen.screenBuffer) : Cell(screen.screenBuffer, k)[1] # 0

\* C16: a writeBuffer whose source rectangle starts at or below the buffer's
\* row count, or at or right of its width, leaves every tilemap cell as it
\* was.
C16_OutsideSourceCopiesNothing ==
  [][\A r \in SourceRects :
       ((r[2] >= b.h \/ r[1] >= Buffer_w(b)) /\ ScreenWriteBuffer(r[1], r[2], r[3], r[4]))
         => screen'.screenBuffer = screen.screenBuffer]_vars

\* C17: writeString moves the cursor to column 0 of the next row at each
\* newline of the string and stores no cell for the newline: a cell it changes
\* never holds glyph 10, and when the rows below the cursor suffice the cursor
\* ends as many rows down as the string has newlines.
NewLinesIn(str) == Cardinality({k \in DOMAIN str : str[k] = NewLine})
C17_NewlineBreaksLine ==
  [][\A str \in ScreenStrings :
       (~CursorOutside(screen) /\ ScreenWriteString(str)) =>
         /\ \A k \in CellsOf(screen.screenBuffer) :
               Cell(screen'.screenBuffer, k) # Cell(screen.screenBuffer, k)
                 => Cell(screen'.screenBuffer, k)[1] # NewLine
         /\ screen.y + NewLinesIn(str) < screen.h
               => screen'.y = screen.y + NewLinesIn(str)]_vars

\* C20: a Screen tick that finds dirty set issues exactly one tilemap upload
\* and after it exactly one draw call, the texture then holds the tilemap
\* and dirty is cleared; a tick that finds dirty clear issues no upload and
\* no draw and leaves every field of the Screen as it was.
C20_TickUploadsOnceWhenDirty ==
  [][ScreenTick =>
       IF screen.dirty
       THEN /\ Cardinality(Positions(screen'.gl, "texImage2D")) = 1
            /\ Cardinality(Positions(screen'.gl, "drawArrays")) = 1
            /\ \A u \in Positions(screen'.gl, "texImage2D"),
                  d \in Positions(screen'.gl, "drawArrays") : u < d
            /\ screen'.tileMapTexture = screen.screenBuffer
            /\ ~screen'.dirty
            /\ [screen' EXCEPT !.gl = screen.gl, !.dirty = TRUE,
                               !.tileMapTexture = screen.tileMapTexture] = screen
       ELSE /\ Positions(screen'.gl, "texImage2D") = {}
            /\ Positions(screen'.gl, "drawArrays") = {}
            /\ [screen' EXCEPT !.gl = screen.gl] = screen]_vars
C20_Witness ==
  /\ last.op = "tick"
  /\ ~screen.dirty
  /\ screen.gl = << >>
  /\ screen.tileMapTexture = screen.screenBuffer
  /\ \E k \in CellsOf(screen.screenBuffer) : Cell(screen.screenBuffer, k)[1] # 0

\* the buffer holds the rows "AB" and "CD"
HoldsABCD(bf) ==
  /\ bf.i = 4 /\ bf.h = 2 /\ bf.starts[1] = 2
  /\ <<bf.buffer[0], bf.buffer[1], bf.buffer[2], bf.buffer[3]>> = <<65, 66, 67, 68>>
\* the tilemap cell that shows glyph c in the given color
GlyphCell(sc, c, color) ==
  <<c % sc.tileColumns, c \div sc.tileColumns, color % 256, (color \div 256) % 256>>
\* cell (x, y) of the Screen's tilemap
CellAt(sc, x, y) == Cell(sc.screenBuffer, y * sc.w + x)
ABCDWritten ==
  /\ b'.h = 2
  /\ RowLength(b', 0) = 2 /\ RowLength(b', 1) = 2
  /\ Buffer_w(b') = 2
  /\ <<b'.buffer[0], b'.buffer[1], b'.buffer[2], b'.buffer[3]>> = <<65, 66, 67, 68>>
ABCDShown(sc) ==
  /\ CellAt(sc, 0, 0) = GlyphCell(sc, 65, DefaultColor)
  /\ CellAt(sc, 1, 0) = GlyphCell(sc, 66, DefaultColor)
  /\ CellAt(sc, 0, 1) = GlyphCell(sc, 67, DefaultColor)
  /\ CellAt(sc, 1, 1) = GlyphCell(sc, 68, DefaultColor)
TextRendered ==
  /\ HoldsABCD(b) /\ view.x = 0 /\ view.y = 0
  /\ screen.w = 4 /\ screen.h = 4
  /\ view.version # b.version
  /\ ViewTick

\* C18 as stated: "AB\nCD" written to an empty buffer gives two rows of two
\* characters and width 2, and its render on a 4x4 Screen from scroll (0,0)
\* shows A, B at (0,0), (1,0) and C, D at (0,1), (1,1) with every other cell
\* of the grid blank.
C18_RenderOnlyText ==
  [][/\ (b.i = 0 /\ b.h = 1 /\ TextWriteString(ABCD)) => ABCDWritten
     /\ TextRendered =>
          /\ ABCDShown(screen')
          /\ \A x \in 0..3, y \in 0..3 :
                ~(x \in 0..1 /\ y \in 0..1)
                  => CellAt(screen', x, y) = <<0, 0, 0, 0>>]_vars
\* C18 amended: as above, with every other cell of rows 0 to 2 blank and row
\* 3 showing the first four characters of the status line in the status
\* color.
C18_RenderTextAndStatus ==
  [][/\ (b.i = 0 /\ b.h = 1 /\ TextWriteString(ABCD)) => ABCDWritten
     /\ TextRendered =>
          /\ ABCDShown(screen')
          /\ \A x \in 0..3, y \in 0..2 :
                ~(x \in 0..1 /\ y \in 0..1)
                  => CellAt(screen', x, y) = <<0, 0, 0, 0>>
          /\ \A x \in 0..3 :
                CellAt(screen', x, 3) =
                  GlyphCell(screen', StatusLine(b)[x + 1], MakeColor(256, 256, 0))]_vars
C18_Witness ==
  /\ HoldsABCD(b) /\ view.x = 0 /\ view.y = 0
  /\ screen.w = 4 /\ screen.h = 4
  /\ ~mutated /\ ticked /\ view.version = b.version
  /\ ABCDShown(screen)
  /\ CellAt(screen, 0, 3)[1] = 66

\* C21: every step of clear, writeCharCode, writeString or writeBuffer that
\* changes a tilemap byte leaves dirty set, and in every state in which dirty
\* is clear the tilemap texture uploaded last equals the tilemap array byte
\* for byte.
C21_CleanMeansUploaded ==
  /\ [](~screen.dirty => screen.tileMapTexture = screen.screenBuffer)
  /\ [][(last'.op \in {"clear", "writeCharCode", "writeString", "writeBuffer"}
          /\ last'.n # last.n
          /\ screen'.screenBuffer # screen.screenBuffer) => screen'.dirty]_vars
C21_Witness ==
  /\ ~screen.dirty
  /\ last.op = "moveTo"
  /\ screen.tileMapTexture = screen.screenBuffer
  /\ \A k \in CellsOf(screen.screenBuffer) : Cell(screen.screenBuffer, k)[1] # 0

\* C24: for every source rectangle, writeBuffer reads of a source row only
\* positions p with starts[row] + sourceX <= p < min(end of the row, i), and
\* reads no line-start entry at an index >= h.
C24_ReadsWithinRowSpan ==
  \A r \in SourceRects :
    LET rd == Screen_writeBufferReads(screen, b, r[1], r[2], r[3], r[4])
    IN /\ \A k \in rd.starts : k < b.h
       /\ \A rp \in rd.cells :
            /\ b.starts[rp[1]] + r[1] <= rp[2]
            /\ rp[2] < Min(b.starts[rp[1]] + RowLength(b, rp[1]), b.i)

\* buffer row row, read from column sx on, is on screen row k
RowShown(sc, bf, row, k, sx) ==
  \A x \in 0..(Min(RowLength(bf, row) - sx, sc.w) - 1) :
    LET p == bf.starts[row] + sx + x
    IN CellAt(sc, x, k) =
         GlyphCell(sc, bf.buffer[p] + GlyphCount * bf.styles[p], bf.colors[p])

\* C23: a render by the View's tick puts buffer row scrollY + k on screen row
\* k for every k < min(rows - 1, h - scrollY), and leaves every cell of the
\* rows above the last that shows no buffer character blank.
C23_WindowRowsShown ==
  [][(view.version # b.version /\ ViewTick) =>
       \A k \in 0..(Min(screen.h - 1, b.h - view.y) - 1) :
         RowShown(screen', b, view.y + k, k, view.x)]_vars

\* C28: after scrollToBottom() on a buffer with at least as many rows as the
\* screen, the last completed row h - 2 and the row in progress h - 1 are
\* both on a screen row above the status line.
C28_BottomRowsShown ==
  [][(b.h >= screen.h /\ ScrollToBottom) =>
       \A row \in {b.h - 2, b.h - 1} :
         /\ row - view'.y \in 0..(screen.h - 2)
         /\ RowShown(screen', b, row, row - view'.y, view'.x)]_vars

\* C25: the two glyph bytes of the cell stored by writeCharCode(c) under
\* style s are the atlas column and row at which glyph s * 256 + c was drawn.
C25_GlyphBytesAreAtlasPosition ==
  [][\A c \in AllCodes :
       (~CursorOutside(screen) /\ ScreenWriteCharCode(c)) =>
         LET cell == CellAt(screen', screen.x, screen.y)
         IN <<cell[1], cell[2]>> =
              Screen_atlasPosition(screen.style * GlyphCount + c, screen.tileColumns)]_vars

\* C26: a cell written in color makeColor(r, g, b) stores the low and the
\* high byte of the packed 5/6/5 value of (r, g, b), the palette texel at
\* that index is (r - r mod 8, g - g mod 4, b - b mod 8, 255), and every
\* palette texel has alpha 255.
Packed565(r, gr, bl) == (r \div 8) * 2048 + (gr \div 4) * 32 + (bl \div 8)
AllTexelsOpaque == \A i \in 0..65535 : Screen_colorPaletteTexel(i)[4] = 255
C26_ColorBytesArePaletteIndex ==
  /\ AllTexelsOpaque
  /\ [][\A c \in ColorCodes, rgb \in ColorInputs :
          (screen.color = MakeColor(rgb[1], rgb[2], rgb[3])
             /\ ~CursorOutside(screen) /\ ScreenWriteCharCode(c)) =>
            LET cell == CellAt(screen', screen.x, screen.y)
                i == cell[4] * 256 + cell[3]
            IN /\ i = Packed565(rgb[1], rgb[2], rgb[3])
               /\ Screen_colorPaletteTexel(i) =
                    <<rgb[1] - (rgb[1] % 8), rgb[2] - (rgb[2] % 4),
                      rgb[3] - (rgb[3] % 8), 255>>]_vars
C26_Witness ==
  /\ last.op = "writeCharCode"
  /\ screen.color = MakeColor(255, 100, 0)
  /\ Cell(screen.screenBuffer, 0) = <<65, 0, 32, 251>>

\* C27: right after a Screen tick, whether or not it found dirty set, the
\* overlay holds exactly the rectangles of the current selection list.
C27_OverlayFollowsSelections ==
  last.op = "tick" => screen.overlay = Screen_renderSelectionBuffer(screen, 0)

\* the rows above the status line of tilemap a hold what a render of the
\* buffer window at the View's scroll position puts there
ShowsWindow(a) ==
  \A k \in CellsOf(a) :
    k < screen.w * (screen.h - 1)
      => Cell(a, k) = Cell(View_render(screen, b, view).screenBuffer, k)
Settled ==
  /\ view.version = b.version
  /\ ~screen.dirty
  /\ ShowsWindow(screen.tileMapTexture)
Busy ==
  \/ \E str \in LiveStrings : WriteString(str)
  \/ \E d \in LiveDeltas : Scroll(d[1], d[2])
  \/ ScrollToBottom

\* C22: with both ticks fair and neither clear() nor resize, a run in which
\* writes and scrolling stop ends in states where the View's version equals
\* the buffer's, dirty is clear and the uploaded texture shows the buffer
\* window at the scroll position.
C22_SettlesAfterWrites == <>[][~Busy]_vars => <>[]Settled
C22_Witness ==
  /\ Settled
  /\ last.op = "tick"
  /\ b.h = 2 /\ b.i = 2
  /\ ~mutated /\ ~scrolled
  /\ Cell(screen.tileMapTexture, 0)[1] = 65

\* C29: with both ticks fair, after a resize under a View whose non-empty
\* buffer was rendered, the buffer window is rendered into the new tilemap and
\* uploaded, unless a buffer write comes first.
C29_ResizeRerenders ==
  (last.op = "resize" /\ b.i > 0 /\ ~mutated /\ ~scrolled)
    ~> (mutated \/ (~screen.dirty /\ screen.tileMapTexture
                                       = View_render(screen, b, view).screenBuffer))

\* C10: when the Buffer was mutated since the View last rendered, the next
\* View tick re-renders: once a tick has followed the mutation, the tilemap
\* is the rendering of the current buffer window.
C10_TickRenders ==
  (mutated /\ ticked) =>
     screen.screenBuffer = View_render(screen, b, view).screenBuffer
(* ------------- the style-less variant (src/src/terminal.ts) ------------- *)
\* The Screen of the variant without styles: its cursor is an object of its
\* own, move() does not clamp, and next() wraps and scrolls. The variable
\* screen holds it in the runs of SpecPlain.
PlainAtlasWidth == 1024
PlainFontSize == 12
PlainCanvasSizes == {<<12, 32>>}
PlainTargets == (0..2) \X (0..2)
PlainCodes == {65, 66, NewLine}

\* resize(), with initializeSpriteSheet() at device pixel ratio 1
Plain_resize(sc, canvasW, canvasH, measured) ==
  LET tileW == measured
      tileH == PlainFontSize + 4
      screenW == canvasW \div tileW
      screenH == canvasH \div tileH
  IN [sc EXCEPT !.tileW = tileW, !.tileH = tileH,
                !.tileColumns = PlainAtlasWidth \div tileW,
                !.w = screenW, !.h = screenH,
                !.screenBuffer = TypedArray(screenW * screenH * 4),
                !.cursor = [x |-> 0, y |-> 0]]

\* constructor(container, fontSize = 12)
Plain_constructor(canvasW, canvasH, measured) ==
  Plain_resize([cursor |-> [x |-> 0, y |-> 0], color |-> DefaultColor,
                wrap |-> FALSE, dirty |-> FALSE, w |-> 0, h |-> 0,
                screenBuffer |-> TypedArray(0),
                tileW |-> 0, tileH |-> 0, tileColumns |-> 0],
               canvasW, canvasH, measured)

\* move(x, y)
Plain_move(sc, x, y) == [sc EXCEPT !.cursor = [x |-> x, y |-> y]]

\* scroll(n): whole cells move, through the Uint32Array view of the tilemap
Plain_scroll(sc, n) ==
  [sc EXCEPT !.screenBuffer =
     [p \in DOMAIN sc.screenBuffer |->
        IF (p \div 4) \div sc.w >= sc.h - n THEN 0
        ELSE sc.screenBuffer[p + n * sc.w * 4]]]

\* next()
Plain_next(sc) ==
  LET s1 == [sc EXCEPT !.cursor.x = @ + 1]
      s2 == IF s1.cursor.x > s1.w /\ s1.wrap
            THEN [s1 EXCEPT !.cursor = [x |-> 0, y |-> s1.cursor.y + 1]]
            ELSE s1
  IN IF s2.cursor.y > s2.h
     THEN Plain_scroll([s2 EXCEPT !.cursor = [x |-> 0, y |-> 0]], 1)
     ELSE s2

\* nextLine()
Plain_nextLine(sc) ==
  LET s1 == [sc EXCEPT !.cursor = [x |-> 0, y |-> sc.cursor.y + 1]]
  IN IF s1.cursor.y >= s1.h
     THEN Plain_scroll([s1 EXCEPT !.cursor.y = @ - 1], 1)
     ELSE s1

\* writeCharCode(c)
Plain_writeCharCode(sc, c) ==
  LET s1 == [sc EXCEPT !.dirty = TRUE]
      cursor == s1.cursor
      i == (s1.w * cursor.y + cursor.x) * 4
  IN IF c = NewLine THEN Plain_nextLine(s1)
     ELSE IF cursor.x > s1.w \/ cursor.x < 0 \/ cursor.y > s1.h \/ cursor.y < 0
          THEN s1
          ELSE Plain_next([s1 EXCEPT !.screenBuffer =
                 StoreCell(s1.screenBuffer, i, c, s1.tileColumns, s1.color)])

PlainMove(x, y) ==
  /\ screen' = Plain_move(screen, x, y)
  /\ Called("move")
  /\ UNCHANGED <<b, g, fresh, freshPen, view, mutated, ticked, scrolled>>

PlainWriteCharCode(c) ==
  /\ screen' = Plain_writeCharCode(screen, c)
  /\ Called("writeCharCode")
  /\ UNCHANGED <<b, g, fresh, freshPen, view, mutated, ticked, scrolled>>

\* screen.wrap = v
PlainSetWrap(v) ==
  /\ screen' = [screen EXCEPT !.wrap = v]
  /\ Called("wrap")
  /\ UNCHANGED <<b, g, fresh, freshPen, view, mutated, ticked, scrolled>>

NextPlain ==
  \/ \E t \in PlainTargets : PlainMove(t[1], t[2])
  \/ \E c \in PlainCodes : PlainWriteCharCode(c)
  \/ \E v \in BOOLEAN : PlainSetWrap(v)

InitPlain ==
  /\ b = Buffer_constructor(MaxColumns)
  /\ g = G0
  /\ fresh = b
  /\ freshPen = b
  /\ \E size \in PlainCanvasSizes, measured \in MeasuredWidths :
       screen = Plain_constructor(size[1], size[2], measured)
  /\ view = View_constructor
  /\ mutated = FALSE
  /\ ticked = FALSE
  /\ scrolled = FALSE
  /\ last = [op |-> "new", n |-> 0]

SpecPlain == InitPlain /\ [][NextPlain]_vars

\* the cells of the tilemap that a step changes
PlainChangedCells ==
  {k \in CellsOf(screen.screenBuffer) :
     Cell(screen'.screenBuffer, k) # Cell(screen.screenBuffer, k)}
PlainCursorInside ==
  /\ 0 <= screen.cursor.x /\ screen.cursor.x < screen.w
  /\ 0 <= screen.cursor.y /\ screen.cursor.y < screen.h

\* C30: in the style-less variant, writeCharCode of a code other than the
\* newline changes no tilemap cell but the one at the cursor, and changes
\* none at all when the cursor is not inside the grid (in particular at
\* x = columns or y = rows).
C30_WriteTouchesCursorCell ==
  [][\A c \in PlainCodes \ {NewLine} :
       PlainWriteCharCode(c) =>
         PlainChangedCells \subseteq
           (IF PlainCursorInside
            THEN {screen.cursor.y * screen.w + screen.cursor.x}
            ELSE {})]_vars
====
